---- MODULE Spec2Model ----
(***************************************************************************)
(* Model of src/excel_processor.py: class ExcelProcessor.                  *)
(*                                                                         *)
(* The processor owns one list object, self.data_array.  Python lists are  *)
(* mutable objects reached through references, so the model keeps a small  *)
(* heap of list objects: data_array is the reference the processor holds,  *)
(* returned is the reference handed back by the last call of               *)
(* get_random_records (the caller may mutate that list).                   *)
(*                                                                         *)
(* pandas.read_excel is outside the repository: it either raises           *)
(* (FileNotFoundError, or any other exception) or yields a DataFrame, here *)
(* a grid: ordered column labels and ordered rows of cells, with the       *)
(* default RangeIndex 0..len-1.                                            *)
(***************************************************************************)
EXTENDS Integers, Sequences, FiniteSets, TLC

\* Largest number of rows of a grid the reader yields.
MaxRows == 3

(***************************************************************************)
(* Values: cells of the DataFrame, column labels, JSON scalars.            *)
(* Every value is a record [t, i, s]: the tag, an integer and a string     *)
(* part, so that values of different kinds can be compared.                *)
(***************************************************************************)
\* float('nan'): the missing marker pandas puts in an empty cell.
NaN == [t |-> "nan", i |-> 0, s |-> ""]
\* A numpy scalar (numpy.int64 / numpy.float64) holding the number i.
NpNumber(i) == [t |-> "numpy", i |-> i, s |-> ""]
\* A plain Python number.
PyNumber(i) == [t |-> "number", i |-> i, s |-> ""]
\* A plain Python str.
PyStr(s) == [t |-> "str", i |-> 0, s |-> s]
\* Python None (JSON null).
None == [t |-> "null", i |-> 0, s |-> ""]

\* pd.isna(value) for a scalar cell.
IsNa(value) == value.t = "nan"
\* hasattr(value, 'item'): true of numpy scalars, false of str and of plain numbers.
HasItem(value) == value.t = "numpy"
\* value.item(): the numpy scalar unwrapped to the native Python number.
Item(value) == PyNumber(value.i)

\* One decimal digit as text.
Digit(d) ==
    CASE d = 0 -> "0" [] d = 1 -> "1" [] d = 2 -> "2" [] d = 3 -> "3" [] d = 4 -> "4"
      [] d = 5 -> "5" [] d = 6 -> "6" [] d = 7 -> "7" [] d = 8 -> "8" [] d = 9 -> "9"

RECURSIVE NatToStr(_)
NatToStr(n) == IF n < 10 THEN Digit(n) ELSE NatToStr(n \div 10) \o Digit(n % 10)

\* str(column): a str label is itself, an int label is its decimal text.
Str(column) ==
    IF column.t = "str" THEN column.s
    ELSE IF column.i < 0 THEN "-" \o NatToStr(0 - column.i) ELSE NatToStr(column.i)

\* The cell normalisation of the inner loop (lines 41-48).
NormalizeValue(value) ==
    IF IsNa(value) THEN None
    ELSE IF HasItem(value) THEN Item(value)
    ELSE value

(***************************************************************************)
(* Grids the reader can yield.                                             *)
(***************************************************************************)
\* Column label lists: an int header (1) and two str headers; in the second
\* list the last header has the text the int header is coerced to by str().
ColumnLists ==
    { << PyNumber(1), PyStr("b"), PyStr("c") >>,
      << PyNumber(1), PyStr("b"), PyStr("1") >> }

\* What a filled cell of column j holds: a numpy number in the first column
\* (numeric dtype), a str in the second (object dtype); the third column has
\* a header and no data.
ColumnCells(j) ==
    CASE j = 1 -> {NaN, NpNumber(7)}
      [] j = 2 -> {NaN, PyStr("x")}
      [] OTHER -> {NaN}

\* The rows of a grid whose columns are `columns`: a row of the sheet is
\* blank, or filled in every column that has data.
RowsOf(columns) ==
    { r \in [1..Len(columns) -> UNION {ColumnCells(j) : j \in 1..Len(columns)}] :
        /\ \A j \in 1..Len(columns) : r[j] \in ColumnCells(j)
        /\ \/ \A j \in 1..Len(columns) : IsNa(r[j])
           \/ \A j \in 1..Len(columns) : IsNa(r[j]) => ColumnCells(j) = {NaN} }

Grids ==
    UNION { { [present |-> TRUE, columns |-> c, rows |-> rs] :
                rs \in UNION { [1..m -> RowsOf(c)] : m \in 0..MaxRows } } :
            c \in ColumnLists }

\* No grid: the reader raised before yielding one.
NoGrid == [present |-> FALSE, columns |-> <<>>, rows |-> <<>>]

(***************************************************************************)
(* load_excel                                                              *)
(***************************************************************************)
\* pd.read_excel(...): the DataFrame as a sequence of (index label, row),
\* index labels being the default RangeIndex 0, 1, 2, ...
ReadExcel(grid) == [p \in 1..Len(grid.rows) |-> [index |-> p - 1, row |-> grid.rows[p]]]

\* A row all of whose cells are missing.
AllNa(row) == \A j \in 1..Len(row) : IsNa(row[j])

\* df.dropna(how='all'): the rows that are not entirely missing, in order,
\* each keeping the index label it had (the index is not reset).
DropNaAll(df) == SelectSeq(df, LAMBDA e : ~AllNa(e.row))

\* d[k] = v on a dict d (a function from keys to values).
DictSet(d, k, v) == [x \in (DOMAIN d) \cup {k} |-> IF x = k THEN v ELSE d[x]]

\* The empty dict {}.
EmptyDict == [x \in {} |-> None]

\* The inner loop without an entry for a missing cell.
RECURSIVE RowDataSkippingNa(_, _, _, _)
RowDataSkippingNa(d, row, columns, j) ==
    IF j > Len(columns) THEN d
    ELSE IF IsNa(row[j]) THEN RowDataSkippingNa(d, row, columns, j + 1)
    ELSE RowDataSkippingNa(DictSet(d, Str(columns[j]), NormalizeValue(row[j])),
                           row, columns, j + 1)

\* The inner loop "for column in df.columns" from column j on (lines 40-50).
RECURSIVE RowData(_, _, _, _)
RowData(d, row, columns, j) ==
    IF j > Len(columns) THEN d
    ELSE RowData(DictSet(d, Str(columns[j]), NormalizeValue(row[j])), row, columns, j + 1)

\* row_object of one iteration of the outer loop (lines 34-50).
RowObject(index, row, columns) ==
    [id |-> index + 1, data |-> RowData(EmptyDict, row, columns, 1)]

\* The loop appending to the list it found in self.data_array.
KeptArray(old) == old

\* "self.data_array = []" (line 29): the list the loop appends to, whatever
\* the old one held.
ResetArray(old) == <<>>

\* The outer loop "for index, row in df.iterrows()" run for its first k
\* iterations, appending to acc (lines 32-52).
RECURSIVE ProcessRows(_, _, _, _)
ProcessRows(acc, df, columns, k) ==
    IF k = 0 THEN acc
    ELSE Append(ProcessRows(acc, df, columns, k - 1),
                RowObject(df[k].index, df[k].row, columns))

\* What can happen inside the try block of one load_excel call:
\*   not_found   read_excel raises FileNotFoundError (line 21/23)
\*   read_error  read_excel or dropna raises another Exception (lines 21-26)
\*   row_error   an Exception is raised in iteration `at` of the outer loop,
\*               after at - 1 row objects were appended (lines 32-52)
\*   none        the try block completes
Fault(kind, at) == [kind |-> kind, at |-> at]

ReadFaults == {Fault("not_found", 0), Fault("read_error", 0)}

GridFaults(grid) ==
    {Fault("none", 0)} \cup
    {Fault("row_error", k) : k \in 1..Len(DropNaAll(ReadExcel(grid)))}

\* The contents of self.data_array when load_excel returns.
LoadedArray(old, grid, fault) ==
    LET df == DropNaAll(ReadExcel(grid)) IN
    CASE fault.kind \in {"not_found", "read_error"} -> old
      [] fault.kind = "row_error" -> ProcessRows(ResetArray(old), df, grid.columns, fault.at - 1)
      [] fault.kind = "none" -> ProcessRows(ResetArray(old), df, grid.columns, Len(df))

\* Which except clause, if any, handled the call (lines 54-60).
LoadStatus(fault) ==
    CASE fault.kind = "none" -> "ok"
      [] fault.kind = "not_found" -> "not_found"
      [] OTHER -> "error"

(***************************************************************************)
(* get_random_records                                                      *)
(***************************************************************************)
\* No list object.
NoRef == "none"

\* The result of a call: the list returned and the reference of the list
\* object holding it, or an exception raised; `after` is what the call leaves
\* in the list it read.
Returned(list, ref, after) == [raised |-> FALSE, list |-> list, ref |-> ref, after |-> after]
Raised(after) == [raised |-> TRUE, list |-> <<>>, ref |-> NoRef, after |-> after]

\* "not self.data_array" (line 72).
NoData(array) == Len(array) = 0

\* A guard that only rejects n = 0.
OnlyZero(n) == n = 0

\* "n <= 0" (line 76).
NonPositive(n) == n <= 0

\* A guard that lets n = len(self.data_array) through to the sampling.
MoreThanAll(array, n) == n > Len(array)

\* "n >= len(self.data_array)" (line 80).
AtLeastAll(array, n) == n >= Len(array)

\* pool[j] = v on a list, j counted from 0.
ListSet(pool, j, v) == [pool EXCEPT ![j + 1] = v]

\* A selection loop that leaves the chosen element in the pool.
RECURSIVE SampleKeepingPool(_, _, _, _)
SampleKeepingPool(pool, m, draws, i) ==
    IF i > Len(draws) THEN <<>>
    ELSE <<pool[draws[i] + 1]>> \o SampleKeepingPool(pool, m - 1, draws, i + 1)

\* The selection loop of random.sample(population, k) over a pool of which
\* the first m elements are still unchosen; draws[i] is the value of
\* randbelow(m) in iteration i:
\*     j = randbelow(n - i); result[i] = pool[j]; pool[j] = pool[n - i - 1]
RECURSIVE SampleLoop(_, _, _, _)
SampleLoop(pool, m, draws, i) ==
    IF i > Len(draws) THEN <<>>
    ELSE <<pool[draws[i] + 1]>> \o
         SampleLoop(ListSet(pool, draws[i], pool[m]), m - 1, draws, i + 1)

\* random.sample(population, k), the result in a new list `fresh`:
\* ValueError unless 0 <= k <= len(population).
\* The selection loop run on the population itself: what it leaves there.
RECURSIVE PoolAfterSample(_, _, _)
PoolAfterSample(population, k, draws) ==
    IF k <= 0 \/ k > Len(draws) \/ k > Len(population) THEN population
    ELSE LET before == PoolAfterSample(population, k - 1, draws)
             m == Len(population) - (k - 1)
         IN  ListSet(before, draws[k], before[m])

\* The population after random.sample(population, k): the loop works on
\* "pool = list(population)", so the population is as it was.
PopulationAfterSample(population, k, draws) == population

RandomSample(population, k, draws, fresh) ==
    IF k < 0 \/ k > Len(population) THEN Raised(population)
    ELSE Returned(SampleLoop(population, Len(population), draws, 1), fresh,
                  PopulationAfterSample(population, k, draws))

\* The values randbelow can produce during random.sample(population, k):
\* the i-th is below len(population) - (i - 1).
DrawSeqs(len, k) ==
    IF k < 0 \/ k > len THEN {<<>>}
    ELSE { d \in [1..k -> 0..(len - 1)] : \A i \in 1..k : d[i] < len - (i - 1) }

\* Returning self.data_array itself.
SameList(store, fresh) == store

\* "self.data_array.copy()" (line 83): the reference returned is that of a
\* new list object `fresh`, not the one the processor holds.
ListCopy(store, fresh) == fresh

\* The body of get_random_records (lines 72-89): `array` is the contents of
\* the list self.data_array refers to, `store` that reference, `fresh` the
\* reference of a list object created by the call.
GetRandomRecordsResult(array, n, draws, store, fresh) ==
    IF NoData(array) THEN Returned(<<>>, fresh, array)
    ELSE IF NonPositive(n) THEN Returned(<<>>, fresh, array)
    ELSE IF AtLeastAll(array, n) THEN Returned(array, ListCopy(store, fresh), array)
    ELSE RandomSample(array, n, draws, fresh)

(***************************************************************************)
(* display_sample_data, get_total_records, export_to_json                  *)
(***************************************************************************)
\* list[:stop], Python's slice: a negative stop counts from the end.
SliceTo(list, stop) ==
    LET last == IF stop >= 0 THEN (IF stop < Len(list) THEN stop ELSE Len(list))
                ELSE (IF Len(list) + stop > 0 THEN Len(list) + stop ELSE 0)
    IN  SubSeq(list, 1, last)

\* The records display_sample_data prints (lines 98-105).
DisplayedRecords(array, num_samples) ==
    IF NoData(array) THEN <<>> ELSE SliceTo(array, num_samples)

\* get_total_records (line 114).
GetTotalRecordsValue(array) == Len(array)

(***************************************************************************)
(* State                                                                   *)
(***************************************************************************)
VARIABLES
    heap,         \* list objects: reference -> contents (a sequence of records)
    data_array,   \* self.data_array: the reference the processor holds
    returned,     \* the reference get_random_records last returned, or NoRef
    op,           \* the last call: its name, argument, outcome, and the
                  \* number of records held before it
    grid,         \* the grid read_excel yielded to the last load_excel
    load_status,  \* how the last load_excel ended ("never" before the first)
    out           \* the records the last call printed or wrote

vars == <<heap, data_array, returned, op, grid, load_status, out>>

\* References of list objects.  A list nobody refers to any more is dropped
\* from the heap (its slot is empty) and its reference is free again.
Refs == {"list_a", "list_b"}

\* The reference of a newly created list object: one not among `live`.
AllocRef(live) == CHOOSE r \in Refs : r \notin live /\ \A q \in Refs \ live : r = "list_a" \/ q # "list_a"

\* The contents of self.data_array.
StoreList == heap[data_array]

\* The arguments n (and num_samples) the caller passes.
Counts == (0 - 1)..(MaxRows + 1)

Call(name, n, outcome) ==
    [name |-> name, n |-> n, outcome |-> outcome, before |-> Len(StoreList)]

\* __init__ (lines 7-8): self.data_array = [].
Init ==
    /\ data_array = AllocRef({})
    /\ heap = [r \in Refs |-> <<>>]
    /\ returned = NoRef
    /\ op = [name |-> "__init__", n |-> 0, outcome |-> "ok", before |-> 0]
    /\ grid = NoGrid
    /\ load_status = "never"
    /\ out = <<>>

\* One call of load_excel whose read yields `g` (NoGrid when it raises) and
\* whose try block meets `fault` (lines 18-60).
LoadExcelCall(g, fault) ==
    LET reset == fault.kind \in {"none", "row_error"}
        ref == IF reset THEN AllocRef({}) ELSE data_array
        array == LoadedArray(StoreList, g, fault)
    IN  /\ data_array' = ref
        /\ heap' = [r \in Refs |-> IF r = ref THEN array ELSE <<>>]
        /\ returned' = NoRef
        /\ op' = Call("load_excel", 0, LoadStatus(fault))
        /\ grid' = g
        /\ load_status' = LoadStatus(fault)
        /\ out' = <<>>

LoadExcel ==
    \/ \E fault \in ReadFaults : LoadExcelCall(NoGrid, fault)
    \/ \E g \in Grids : \E fault \in GridFaults(g) : LoadExcelCall(g, fault)

\* One call of get_random_records(n) (lines 62-89).
GetRandomRecords ==
    \E n \in Counts : \E draws \in DrawSeqs(Len(StoreList), n) :
        LET res == GetRandomRecordsResult(StoreList, n, draws, data_array,
                                          AllocRef({data_array}))
        IN  /\ heap' = [r \in Refs |->
                          IF ~res.raised /\ r = res.ref /\ r # data_array THEN res.list
                          ELSE IF r = data_array THEN res.after
                          ELSE <<>>]
            /\ returned' = res.ref
            /\ op' = Call("get_random_records", n,
                          IF res.raised THEN "raised" ELSE "returned")
            /\ out' = <<>>
            /\ UNCHANGED <<data_array, grid, load_status>>

\* One call of display_sample_data(num_samples) (lines 91-110).
DisplaySampleData ==
    \E num_samples \in Counts :
        /\ out' = DisplayedRecords(StoreList, num_samples)
        /\ op' = Call("display_sample_data", num_samples, "ok")
        /\ heap' = [r \in Refs |-> IF r = data_array THEN heap[r] ELSE <<>>]
        /\ returned' = NoRef
        /\ UNCHANGED <<data_array, grid, load_status>>

\* One call of get_total_records() (lines 112-114); op.n is the value returned.
GetTotalRecords ==
    /\ op' = Call("get_total_records", GetTotalRecordsValue(StoreList), "ok")
    /\ out' = <<>>
    /\ heap' = [r \in Refs |-> IF r = data_array THEN heap[r] ELSE <<>>]
    /\ returned' = NoRef
    /\ UNCHANGED <<data_array, grid, load_status>>

\* One call of export_to_json(output_file) (lines 116-128): open or dump
\* raises (written = FALSE) or the whole collection is written.
ExportToJson ==
    \E written \in BOOLEAN :
        /\ out' = IF written THEN StoreList ELSE <<>>
        /\ op' = Call("export_to_json", 0, IF written THEN "ok" ELSE "error")
        /\ heap' = [r \in Refs |-> IF r = data_array THEN heap[r] ELSE <<>>]
        /\ returned' = NoRef
        /\ UNCHANGED <<data_array, grid, load_status>>

\* A record that is in no grid.
ForeignRecord == [id |-> 0, data |-> DictSet(EmptyDict, "z", None)]

\* list.reverse().
RECURSIVE Reverse(_)
Reverse(list) == IF list = <<>> THEN <<>> ELSE Append(Reverse(Tail(list)), Head(list))

\* The caller changes the list it was handed by the last get_random_records:
\* list.append(x), list.pop(0) or list.reverse().
CallerMutation ==
    /\ op.name = "get_random_records"
    /\ returned # NoRef
    /\ \E kind \in {"append", "remove", "reorder"} :
        /\ kind \in {"remove", "reorder"} => Len(heap[returned]) > 0
        /\ heap' = [heap EXCEPT ![returned] =
                      CASE kind = "append" -> Append(@, ForeignRecord)
                        [] kind = "remove" -> Tail(@)
                        [] kind = "reorder" -> Reverse(@)]
        /\ op' = Call("caller_mutation", op.n, kind)
    /\ UNCHANGED <<data_array, returned, grid, load_status, out>>

Next ==
    \/ LoadExcel
    \/ GetRandomRecords
    \/ DisplaySampleData
    \/ GetTotalRecords
    \/ ExportToJson
    \/ CallerMutation

Spec == Init /\ [][Next]_vars

(***************************************************************************)
(* Vocabulary of the properties                                            *)
(***************************************************************************)
\* Count(): what get_total_records returns in this state.
Count == GetTotalRecordsValue(StoreList)

\* The positions (from 1) of the rows of g that are not entirely empty.
NonEmptyRows(g) ==
    { p \in 1..Len(g.rows) : \E j \in 1..Len(g.columns) : ~IsNa(g.rows[p][j]) }

\* R: the number of non-empty rows of g.
NonEmptyCount(g) == Cardinality(NonEmptyRows(g))

\* The position in g of its k-th non-empty row.
KthNonEmptyRow(g, k) ==
    CHOOSE p \in NonEmptyRows(g) : Cardinality({q \in NonEmptyRows(g) : q < p}) = k - 1

\* The column-name set of g, the names coerced to strings.
ColumnNames(g) == { Str(g.columns[j]) : j \in 1..Len(g.columns) }

\* The payloads of a list of records, in order.
Payloads(list) == [k \in 1..Len(list) |-> list[k].data]

\* The payloads of the non-empty rows of g, in order.
GridPayloads(g) ==
    [k \in 1..NonEmptyCount(g) |->
        RowData(EmptyDict, g.rows[KthNonEmptyRow(g, k)], g.columns, 1)]

\* The elements of a list.
Elements(list) == { list[k] : k \in 1..Len(list) }

\* The calls that only read the collection.
ReadCalls == {"get_random_records", "get_total_records", "display_sample_data",
              "export_to_json"}

TypeOK ==
    /\ data_array \in Refs
    /\ returned \in Refs \cup {NoRef}
    /\ DOMAIN heap = Refs
    /\ grid \in Grids \cup {NoGrid}
    /\ load_status \in {"never", "ok", "not_found", "error"}
    /\ op.n \in Counts \cup 0..MaxRows

(***************************************************************************)
(* Properties                                                              *)
(***************************************************************************)
\* C1: after a load_excel call that failed (source not found, or any other
\* failure), the record collection is empty and Count() is 0.
C1_FailedLoadLeavesEmpty ==
    load_status \in {"not_found", "error"} => (StoreList = <<>> /\ Count = 0)

\* C2: after a successful load of a grid with R non-empty rows the record
\* ids are exactly 1..R in order: the k-th surviving row has id k, and an
\* entirely empty row does not consume an id.
C2_IdsContiguous ==
    load_status = "ok" =>
        /\ Count = NonEmptyCount(grid)
        /\ \A k \in 1..Len(StoreList) : StoreList[k].id = k

\* C3: when load_excel returns, the collection is either empty or holds the
\* records of all the non-empty rows of the grid of that call; never a strict
\* prefix of them, never records of an earlier load.
C3_LoadAtomic ==
    op.name = "load_excel" =>
        \/ StoreList = <<>>
        \/ grid.present /\ Payloads(StoreList) = GridPayloads(grid)

\* C4: on a non-empty collection, get_random_records(n) with n >= Count()
\* returns a list equal to the collection: every record once, in insertion
\* order.
C4_ClampReturnsAll ==
    (op.name = "get_random_records" /\ op.before > 0 /\ op.n >= op.before) =>
        /\ op.outcome = "returned"
        /\ heap[returned] = StoreList

\* C5: get_random_records(n) with 0 < n < Count() returns exactly n records,
\* each a member of the collection, none of them twice, whatever the random
\* source yields.
C5_SampleDistinct ==
    (op.name = "get_random_records" /\ 0 < op.n /\ op.n < op.before) =>
        /\ op.outcome = "returned"
        /\ Len(heap[returned]) = op.n
        /\ \A i \in 1..Len(heap[returned]) : heap[returned][i] \in Elements(StoreList)
        /\ \A i, j \in 1..Len(heap[returned]) :
              i # j => heap[returned][i] # heap[returned][j]

\* C6: get_random_records never raises, and with an empty collection or with
\* n <= 0 it returns an empty list.
C6_NeverRaises ==
    op.name = "get_random_records" =>
        /\ op.outcome = "returned"
        /\ (op.before = 0 \/ op.n <= 0) => heap[returned] = <<>>

\* C7: a call of get_random_records, get_total_records, display_sample_data
\* or export_to_json leaves the collection as it was: the same records in
\* the same order.
C7_ReadsKeepCollection ==
    [][op'.name \in ReadCalls => heap'[data_array'] = heap[data_array]]_vars

\* C8: when the caller appends to, removes from or reorders a list it was
\* handed by get_random_records, the collection and Count() stay as they were.
C8_ReturnedListIsCopy ==
    [][op'.name = "caller_mutation" => heap'[data_array'] = heap[data_array]]_vars

\* C9: after a successful load of a grid with R non-empty rows, Count() is R
\* and the collection is exactly the records of that grid's non-empty rows,
\* in order; no record of an earlier load remains.
C9_LoadReplaces ==
    load_status = "ok" =>
        /\ Count = NonEmptyCount(grid)
        /\ StoreList = [k \in 1..NonEmptyCount(grid) |->
                          RowObject(KthNonEmptyRow(grid, k) - 1,
                                    grid.rows[KthNonEmptyRow(grid, k)], grid.columns)]

\* C10: after a successful load, the key set of every record's payload is the
\* grid's column-name set (names coerced to strings), also where a cell is
\* missing.
C10_PayloadKeys ==
    load_status = "ok" =>
        \A k \in 1..Len(StoreList) : DOMAIN StoreList[k].data = ColumnNames(grid)

(***************************************************************************)
(* Reachable states in which the case of each property happens             *)
(***************************************************************************)
\* C4: all records of a collection of three or more were asked for.
C4_Witness ==
    /\ op.name = "get_random_records" /\ op.outcome = "returned"
    /\ op.before >= 3 /\ op.n = op.before
    /\ Len(heap[returned]) = op.before

\* C5: two of three or more records were drawn, out of insertion order.
C5_Witness ==
    /\ op.name = "get_random_records" /\ op.outcome = "returned"
    /\ op.n = 2 /\ op.before >= 3
    /\ heap[returned][1] = StoreList[3]
    /\ heap[returned][2] = StoreList[1]

\* C6: a negative count was asked of a loaded collection.
C6_Witness ==
    /\ op.name = "get_random_records" /\ op.n < 0 /\ op.before > 0
    /\ returned # NoRef /\ heap[returned] = <<>>

\* C7: an export failed on a loaded collection.
C7_Witness ==
    /\ op.name = "export_to_json" /\ op.outcome = "error"
    /\ Len(StoreList) >= 2

\* C8: the caller reordered the full list it was handed.
C8_Witness ==
    /\ op.name = "caller_mutation" /\ op.outcome = "reorder"
    /\ op.n >= op.before /\ op.before >= 2
    /\ heap[returned] # StoreList
    /\ Len(heap[returned]) = Len(StoreList)

\* C9: a successful load replaced a larger collection by a smaller one.
C9_Witness ==
    /\ op.name = "load_excel" /\ load_status = "ok"
    /\ op.before > Count /\ Count >= 1

\* C10: a loaded record has a null under one of its keys.
C10_Witness ==
    /\ load_status = "ok" /\ Len(StoreList) >= 1
    /\ \E key \in DOMAIN StoreList[1].data : StoreList[1].data[key] = None

====
